---- MODULE Spec2Model ----
(***************************************************************************)
(* Model of the resource-accounting core of smol-EVM:                      *)
(*   src/src/evm/gas.rs     GasMeter                                       *)
(*   src/src/evm/memory.rs  Memory                                         *)
(*   src/src/evm/stack.rs   Stack                                          *)
(*                                                                         *)
(* Every method is a pure operator from the receiver (and the arguments)   *)
(* to a record [self |-> receiver afterwards, res |-> result]; the actions *)
(* apply the operators to the state and record the call (op, arg, res) and *)
(* the state before it (pre_meter, pre_mem, pre_stack), so that per-call   *)
(* properties are state predicates.                                        *)
(*                                                                         *)
(* Integer widths.  TLC integers are 32 bits wide, so a u64 is modelled as *)
(* a natural below 2^U64_BITS with the same wrap / overflow-check          *)
(* behaviour.  usize is as wide as u64 (64-bit target) and is modelled at  *)
(* the same width in the cost functions of gas.rs, whose size arguments    *)
(* are chosen by the caller.  Inside Memory, usize values (size, word      *)
(* counts) never come near their width (size <= MEMORY_MAX_SIZE), so       *)
(* memory.rs is modelled on plain naturals; the memories billed by the     *)
(* meter are kept below the size whose word count squared reaches          *)
(* 2^U64_BITS, as MEMORY_MAX_SIZE keeps them below 2^37 bytes in the       *)
(* program.                                                                *)
(***************************************************************************)
EXTENDS Integers, Sequences, FiniteSets, TLC

\* ------------------------------------------------------------------------
\* Bounds of the model
\* ------------------------------------------------------------------------
U64_BITS == 24
MaxOps == 4
StackNearFull == 1022

\* ------------------------------------------------------------------------
\* State
\* ------------------------------------------------------------------------
VARIABLES
    meter,            \* GasMeter: gas_used, gas_limit, gas_refund,
                      \*           memory_gas_cost, previous_memory_size
    mem,              \* Memory: memory (Vec<U256>), size
    stack,            \* Stack: stack (Vec<U256>)
    overflow_checks,  \* build profile: TRUE = arithmetic overflow panics
                      \* (debug), FALSE = it wraps (release)
    op,               \* name of the last method called
    arg,              \* its argument
    res,              \* its result: "Ok", the error returned, or "Panic"
    ret,              \* the value it returned, when it returns one
    pre_meter,        \* meter before the last call
    pre_mem,          \* mem before the last call
    pre_stack,        \* stack before the last call
    consecutive_pushes, \* push calls made since the last pop call
    stack_calls,      \* push and pop calls made on the stack, and how many
                      \* of each returned Ok
    nops,             \* number of calls made so far
    input             \* arguments drawn for a cost function of the meter

vars == <<meter, mem, stack, overflow_checks, op, arg, res, ret,
          pre_meter, pre_mem, pre_stack, consecutive_pushes, stack_calls,
          nops, input>>

\* ------------------------------------------------------------------------
\* u64 arithmetic (gas.rs uses +, +=, saturating_add, saturating_sub)
\* ------------------------------------------------------------------------
U64_MAX == 2^U64_BITS - 1

\* a + b on u64: panics when overflow checks are on, wraps otherwise.
add_u64(a, b) ==
    IF a + b > U64_MAX
    THEN [panic |-> overflow_checks, val |-> (a + b) % (U64_MAX + 1)]
    ELSE [panic |-> FALSE, val |-> a + b]

\* a * b modulo 2^U64_BITS, by doubling (the product itself may not fit a
\* TLC integer)
RECURSIVE mul_wrapped(_, _)
mul_wrapped(a, b) ==
    IF b = 0 THEN 0
    ELSE (2 * mul_wrapped(a, b \div 2) + (b % 2) * a) % (U64_MAX + 1)

\* a * b on u64 / usize: panics when overflow checks are on, wraps otherwise.
mul_u64(a, b) ==
    IF a # 0 /\ b > U64_MAX \div a
    THEN [panic |-> overflow_checks, val |-> mul_wrapped(a, b)]
    ELSE [panic |-> FALSE, val |-> a * b]

saturating_add(a, b) == IF a + b > U64_MAX THEN U64_MAX ELSE a + b

saturating_sub(a, b) == IF a > b THEN a - b ELSE 0

\* ------------------------------------------------------------------------
\* U256 words.  A word is its 32 base-256 digits, digit k holding bits
\* 8k .. 8k+7, so that (word >> (8*k)) & 0xff is digit k.
\* ------------------------------------------------------------------------
U256_ZERO == [k \in 0..31 |-> 0]

\* U256::from(n) for n < 256
U256_from(n) == [k \in 0..31 |-> IF k = 0 THEN n ELSE 0]

\* ------------------------------------------------------------------------
\* Vec<U256> of the memory: its length and the elements that are not zero
\* (an index below len that is absent from nz holds U256::ZERO).
\* ------------------------------------------------------------------------
Vec_new == [len |-> 0, nz |-> <<>>]

Vec_get(v, i) == IF i \in DOMAIN v.nz THEN v.nz[i] ELSE U256_ZERO

Vec_set(v, i, w) ==
    LET keep == IF w = U256_ZERO THEN DOMAIN v.nz \ {i}
                                 ELSE DOMAIN v.nz \cup {i}
    IN [v EXCEPT !.nz = [j \in keep |-> IF j = i THEN w ELSE v.nz[j]]]

\* Vec::resize(n, U256::ZERO), called only to grow
Vec_resize(v, n) ==
    IF n >= v.len THEN [v EXCEPT !.len = n]
    ELSE [len |-> n, nz |-> [j \in {i \in DOMAIN v.nz : i < n} |-> v.nz[j]]]

\* ------------------------------------------------------------------------
\* Memory (memory.rs)
\* ------------------------------------------------------------------------
MEMORY_MAX_SIZE == 1024 * 1024

Memory_new == [memory |-> Vec_new, size |-> 0]

read_byte(self, address) ==
    IF address >= self.size THEN [res |-> "OutOfBounds", val |-> 0]
    ELSE LET word_index == address \div 32
             byte_offset == address % 32
         IN IF word_index >= self.memory.len
            THEN [res |-> "OutOfBounds", val |-> 0]
            ELSE [res |-> "Ok",
                  val |-> Vec_get(self.memory, word_index)[byte_offset]]

\* write_byte setting size to address + 1 even when the memory is larger
write_byte_sets_size(self, address, value) ==
    IF address >= MEMORY_MAX_SIZE THEN [self |-> self, res |-> "OutOfBounds"]
    ELSE LET word_index == address \div 32
             byte_offset == address % 32
             grown == IF word_index >= self.memory.len
                      THEN Vec_resize(self.memory, word_index + 1)
                      ELSE self.memory
             word == [Vec_get(grown, word_index) EXCEPT ![byte_offset] = value]
         IN [self |-> [memory |-> Vec_set(grown, word_index, word),
                       size |-> address + 1],
             res |-> "Ok"]

\* write_byte storing the shifted value without keeping the other bytes of
\* the word
write_byte_clobbers_word(self, address, value) ==
    IF address >= MEMORY_MAX_SIZE THEN [self |-> self, res |-> "OutOfBounds"]
    ELSE LET word_index == address \div 32
             byte_offset == address % 32
             grown == IF word_index >= self.memory.len
                      THEN Vec_resize(self.memory, word_index + 1)
                      ELSE self.memory
             word == [k \in 0..31 |-> IF k = byte_offset THEN value ELSE 0]
             new_size == address + 1
         IN [self |-> [memory |-> Vec_set(grown, word_index, word),
                       size |-> IF new_size > self.size THEN new_size
                                                        ELSE self.size],
             res |-> "Ok"]

write_byte(self, address, value) ==
    IF address >= MEMORY_MAX_SIZE THEN [self |-> self, res |-> "OutOfBounds"]
    ELSE LET word_index == address \div 32
             byte_offset == address % 32
             grown == IF word_index >= self.memory.len
                      THEN Vec_resize(self.memory, word_index + 1)
                      ELSE self.memory
             word == [Vec_get(grown, word_index) EXCEPT ![byte_offset] = value]
             new_size == address + 1
         IN [self |-> [memory |-> Vec_set(grown, word_index, word),
                       size |-> IF new_size > self.size THEN new_size
                                                        ELSE self.size],
             res |-> "Ok"]

read_word(self, address) ==
    IF address >= self.size THEN [res |-> "OutOfBounds", val |-> U256_ZERO]
    ELSE IF address % 32 # 0 THEN [res |-> "InvalidAddress", val |-> U256_ZERO]
    ELSE LET word_index == address \div 32
         IN IF word_index >= self.memory.len
            THEN [res |-> "OutOfBounds", val |-> U256_ZERO]
            ELSE [res |-> "Ok", val |-> Vec_get(self.memory, word_index)]

write_word(self, address, value) ==
    IF address >= MEMORY_MAX_SIZE THEN [self |-> self, res |-> "OutOfBounds"]
    ELSE IF address % 32 # 0 THEN [self |-> self, res |-> "InvalidAddress"]
    ELSE LET word_index == address \div 32
             grown == IF word_index >= self.memory.len
                      THEN Vec_resize(self.memory, word_index + 1)
                      ELSE self.memory
             new_size == address + 32
         IN [self |-> [memory |-> Vec_set(grown, word_index, value),
                       size |-> IF new_size > self.size THEN new_size
                                                        ELSE self.size],
             res |-> "Ok"]

\* expand rounding the word count down instead of up
expand_floor_words(self, new_size) ==
    IF new_size > MEMORY_MAX_SIZE THEN [self |-> self, res |-> "ExpansionLimit"]
    ELSE LET new_word_len == new_size \div 32
         IN [self |-> [memory |-> IF new_word_len > self.memory.len
                                  THEN Vec_resize(self.memory, new_word_len)
                                  ELSE self.memory,
                       size |-> IF new_size > self.size THEN new_size
                                                        ELSE self.size],
             res |-> "Ok"]

\* expand setting size to new_size even when the memory is larger
expand_sets_size(self, new_size) ==
    IF new_size > MEMORY_MAX_SIZE THEN [self |-> self, res |-> "ExpansionLimit"]
    ELSE LET new_word_len == (new_size + 31) \div 32
         IN [self |-> [memory |-> IF new_word_len > self.memory.len
                                  THEN Vec_resize(self.memory, new_word_len)
                                  ELSE self.memory,
                       size |-> new_size],
             res |-> "Ok"]

expand(self, new_size) ==
    IF new_size > MEMORY_MAX_SIZE THEN [self |-> self, res |-> "ExpansionLimit"]
    ELSE LET new_word_len == (new_size + 31) \div 32
         IN [self |-> [memory |-> IF new_word_len > self.memory.len
                                  THEN Vec_resize(self.memory, new_word_len)
                                  ELSE self.memory,
                       size |-> IF new_size > self.size THEN new_size
                                                        ELSE self.size],
             res |-> "Ok"]

size(self) == self.size

\* gas_cost counting whole words only
gas_cost_floor_words(self) ==
    LET g_memory == 3
        a == self.size \div 32
    IN g_memory * a + (a * a) \div 512

gas_cost(self) ==
    LET g_memory == 3
        a == (self.size + 31) \div 32
    IN g_memory * a + (a * a) \div 512

\* ------------------------------------------------------------------------
\* GasMeter (gas.rs)
\* ------------------------------------------------------------------------
GasMeter_new(gas_limit) ==
    [gas_used |-> 0, gas_limit |-> gas_limit, gas_refund |-> 0,
     memory_gas_cost |-> 0, previous_memory_size |-> 0]

\* consume_gas comparing the amount alone with the limit
consume_gas_ignores_used(self, amount) ==
    LET sum == add_u64(self.gas_used, amount)
    IN IF sum.panic THEN [self |-> self, res |-> "Panic"]
       ELSE IF amount > self.gas_limit
       THEN [self |-> self, res |-> "GasLimitExceeded"]
       ELSE [self |-> [self EXCEPT !.gas_used = sum.val], res |-> "Ok"]

\* consume_gas charging before it checks the limit
consume_gas_charge_first(self, amount) ==
    LET sum == add_u64(self.gas_used, amount)
        charged == [self EXCEPT !.gas_used = sum.val]
    IN IF sum.panic THEN [self |-> self, res |-> "Panic"]
       ELSE IF sum.val > self.gas_limit
       THEN [self |-> charged, res |-> "GasLimitExceeded"]
       ELSE [self |-> charged, res |-> "Ok"]

consume_gas(self, amount) ==
    LET sum == add_u64(self.gas_used, amount)
    IN IF sum.panic THEN [self |-> self, res |-> "Panic"]
       ELSE IF sum.val > self.gas_limit
       THEN [self |-> self, res |-> "GasLimitExceeded"]
       ELSE [self |-> [self EXCEPT !.gas_used = sum.val], res |-> "Ok"]

\* refund_gas adding with wrap-around instead of saturation
refund_gas_wrapping(self, amount) ==
    [self |-> [self EXCEPT !.gas_refund =
                              (self.gas_refund + amount) % (U64_MAX + 1)],
     res |-> "Ok"]

refund_gas(self, amount) ==
    [self |-> [self EXCEPT !.gas_refund = saturating_add(self.gas_refund, amount)],
     res |-> "Ok"]

remaining_gas(self) == saturating_sub(self.gas_limit, self.gas_used)

total_gas_used(self) == self.gas_used

effective_gas_used(self) == saturating_sub(self.gas_used, self.gas_refund)

\* memory_expansion_cost pricing the added words as if they were the first
memory_expansion_cost_of_delta(old_size, new_size) ==
    IF new_size <= old_size THEN 0
    ELSE LET g_memory == 3
             old_words == (old_size + 31) \div 32
             new_words == (new_size + 31) \div 32
             added == new_words - old_words
         IN g_memory * added + (added * added) \div 512

\* The evaluation of memory_expansion_cost: the value it returns and whether
\* one of its usize / u64 operations panics on the way.
memory_expansion_cost_eval(old_size, new_size) ==
    IF new_size <= old_size THEN [panic |-> FALSE, val |-> 0]
    ELSE LET g_memory == 3
             old_round == add_u64(old_size, 31)
             new_round == add_u64(new_size, 31)
             old_words == old_round.val \div 32
             new_words == new_round.val \div 32
             old_lin == mul_u64(g_memory, old_words)
             old_sq == mul_u64(old_words, old_words)
             old_cost == add_u64(old_lin.val, old_sq.val \div 512)
             new_lin == mul_u64(g_memory, new_words)
             new_sq == mul_u64(new_words, new_words)
             new_cost == add_u64(new_lin.val, new_sq.val \div 512)
         IN [panic |-> \/ old_round.panic \/ new_round.panic
                      \/ old_lin.panic \/ old_sq.panic \/ old_cost.panic
                      \/ new_lin.panic \/ new_sq.panic \/ new_cost.panic,
             val |-> saturating_sub(new_cost.val, old_cost.val)]

memory_expansion_cost(old_size, new_size) ==
    memory_expansion_cost_eval(old_size, new_size).val

memory_expansion_cost_panics(old_size, new_size) ==
    memory_expansion_cost_eval(old_size, new_size).panic

update_memory_cost(self, memory) ==
    LET current_memory_size == size(memory)
        expansion_cost ==
            memory_expansion_cost(self.previous_memory_size, current_memory_size)
        charged == consume_gas(self, expansion_cost)
        total == add_u64(self.memory_gas_cost, expansion_cost)
    IN IF memory_expansion_cost_panics(self.previous_memory_size,
                                       current_memory_size)
       THEN [self |-> self, res |-> "Panic"]
       ELSE IF expansion_cost > 0 /\ charged.res # "Ok"
       THEN [self |-> self, res |-> charged.res]
       ELSE IF expansion_cost > 0 /\ total.panic
       THEN [self |-> charged.self, res |-> "Panic"]
       ELSE IF expansion_cost > 0
       THEN [self |-> [charged.self EXCEPT
                          !.memory_gas_cost = total.val,
                          !.previous_memory_size = current_memory_size],
             res |-> "Ok"]
       ELSE [self |-> [self EXCEPT !.previous_memory_size = current_memory_size],
             res |-> "Ok"]

\* reset that leaves the memory accounting of the previous context
reset_keeps_memory_accounting(self, gas_limit) ==
    [self EXCEPT !.gas_used = 0, !.gas_limit = gas_limit, !.gas_refund = 0]

reset(self, gas_limit) ==
    [self EXCEPT !.gas_used = 0, !.gas_limit = gas_limit, !.gas_refund = 0,
                 !.memory_gas_cost = 0, !.previous_memory_size = 0]

\* ------------------------------------------------------------------------
\* Opcode costs (gas.rs).  An Opcode is modelled by the name of its variant.
\* ------------------------------------------------------------------------
Opcodes ==
    {"Stop", "Add", "Mul", "Sub", "Div", "Sdiv",
     "Mod", "Smod", "Addmod", "Mulmod", "Exp", "Signextend",
     "Lt", "Gt", "Slt", "Sgt", "Eq", "Iszero",
     "And", "Or", "Xor", "Not", "Byte", "Shl",
     "Shr", "Sar", "Keccak256", "Address", "Balance", "Origin",
     "Caller", "Callvalue", "Calldataload", "Calldatasize", "Calldatacopy", "Codesize",
     "Codecopy", "Gasprice", "Extcodecopy", "Extcodesize", "Extcodehash", "Returndatasize",
     "Returndatacopy", "Blockhash", "Coinbase", "Timestamp", "Number", "Difficulty",
     "Gaslimit", "Chainid", "Selfbalance", "Basefee", "Blobhash", "Blobbasefee",
     "Pop", "Mload", "Mstore", "Mstore8", "Sload", "Sstore",
     "Jump", "Jumpi", "Pc", "Msize", "Gas", "Jumpdest",
     "Tload", "Tstore", "Mcopy", "Push0", "Push1", "Push2",
     "Push3", "Push4", "Push5", "Push6", "Push7", "Push8",
     "Push9", "Push10", "Push11", "Push12", "Push13", "Push14",
     "Push15", "Push16", "Push17", "Push18", "Push19", "Push20",
     "Push21", "Push22", "Push23", "Push24", "Push25", "Push26",
     "Push27", "Push28", "Push29", "Push30", "Push31", "Push32",
     "Dup1", "Dup2", "Dup3", "Dup4", "Dup5", "Dup6",
     "Dup7", "Dup8", "Dup9", "Dup10", "Dup11", "Dup12",
     "Dup13", "Dup14", "Dup15", "Dup16", "Swap1", "Swap2",
     "Swap3", "Swap4", "Swap5", "Swap6", "Swap7", "Swap8",
     "Swap9", "Swap10", "Swap11", "Swap12", "Swap13", "Swap14",
     "Swap15", "Swap16", "Log0", "Log1", "Log2", "Log3",
     "Log4", "Create", "Call", "Callcode", "Return", "Delegatecall",
     "Create2", "Staticcall", "Revert", "Invalid", "Selfdestruct"}

\* U256::is_zero
is_zero(w) == w = U256_ZERO

\* number of significant bits of one byte
byte_bits(d) ==
    IF d = 0 THEN 0 ELSE CHOOSE n \in 1..8 : 2^(n - 1) <= d /\ d < 2^n

\* U256::bit_len: position of the highest set bit, plus one
bit_len(w) ==
    IF is_zero(w) THEN 0
    ELSE LET top == CHOOSE k \in 0..31 :
                        w[k] # 0 /\ \A j \in (k + 1)..31 : w[j] = 0
         IN 8 * top + byte_bits(w[top])

DynamicGasParams_new ==
    [size |-> 0, exponent |-> U256_ZERO, current_value |-> U256_ZERO,
     original_value |-> U256_ZERO, new_value |-> U256_ZERO,
     value |-> U256_ZERO, balance |-> U256_ZERO, is_account_empty |-> FALSE]

with_size(self, new_size) == [self EXCEPT !.size = new_size]

with_exponent(self, exponent) == [self EXCEPT !.exponent = exponent]

with_storage_values(self, current, original, new) ==
    [self EXCEPT !.current_value = current, !.original_value = original,
                 !.new_value = new]

with_call_params(self, value, is_account_empty) ==
    [self EXCEPT !.value = value, !.is_account_empty = is_account_empty]

with_balance(self, balance) == [self EXCEPT !.balance = balance]

\* opcode_cost charging every opcode alike
opcode_cost_flat(opcode) == 3

opcode_cost(opcode) ==
    CASE opcode = "Stop" -> 0
      [] opcode = "Add" -> 3
      [] opcode = "Mul" -> 5
      [] opcode = "Sub" -> 3
      [] opcode = "Div" -> 5
      [] opcode = "Sdiv" -> 5
      [] opcode = "Mod" -> 5
      [] opcode = "Smod" -> 5
      [] opcode = "Addmod" -> 8
      [] opcode = "Mulmod" -> 8
      [] opcode = "Exp" -> 10
      [] opcode = "Signextend" -> 5
      [] opcode = "Lt" -> 3
      [] opcode = "Gt" -> 3
      [] opcode = "Slt" -> 3
      [] opcode = "Sgt" -> 3
      [] opcode = "Eq" -> 3
      [] opcode = "Iszero" -> 3
      [] opcode = "And" -> 3
      [] opcode = "Or" -> 3
      [] opcode = "Xor" -> 3
      [] opcode = "Not" -> 3
      [] opcode = "Byte" -> 3
      [] opcode = "Shl" -> 3
      [] opcode = "Shr" -> 3
      [] opcode = "Sar" -> 3
      [] opcode = "Keccak256" -> 30
      [] opcode = "Address" -> 2
      [] opcode = "Balance" -> 2600
      [] opcode = "Origin" -> 2
      [] opcode = "Caller" -> 2
      [] opcode = "Callvalue" -> 2
      [] opcode = "Calldataload" -> 3
      [] opcode = "Calldatasize" -> 2
      [] opcode = "Calldatacopy" -> 3
      [] opcode = "Codesize" -> 2
      [] opcode = "Codecopy" -> 3
      [] opcode = "Gasprice" -> 2
      [] opcode = "Extcodecopy" -> 2600
      [] opcode = "Extcodesize" -> 2600
      [] opcode = "Extcodehash" -> 2600
      [] opcode = "Returndatasize" -> 2
      [] opcode = "Returndatacopy" -> 3
      [] opcode = "Blockhash" -> 20
      [] opcode = "Coinbase" -> 2
      [] opcode = "Timestamp" -> 2
      [] opcode = "Number" -> 2
      [] opcode = "Difficulty" -> 2
      [] opcode = "Gaslimit" -> 2
      [] opcode = "Chainid" -> 2
      [] opcode = "Selfbalance" -> 2
      [] opcode = "Basefee" -> 2
      [] opcode = "Blobhash" -> 2
      [] opcode = "Blobbasefee" -> 2
      [] opcode = "Pop" -> 2
      [] opcode = "Mload" -> 3
      [] opcode = "Mstore" -> 3
      [] opcode = "Mstore8" -> 3
      [] opcode = "Sload" -> 2100
      [] opcode = "Sstore" -> 22100
      [] opcode = "Jump" -> 8
      [] opcode = "Jumpi" -> 10
      [] opcode = "Pc" -> 2
      [] opcode = "Msize" -> 2
      [] opcode = "Gas" -> 2
      [] opcode = "Jumpdest" -> 1
      [] opcode = "Tload" -> 100
      [] opcode = "Tstore" -> 100
      [] opcode = "Mcopy" -> 3
      [] opcode = "Push0" -> 2
      [] opcode = "Push1" -> 2
      [] opcode = "Push2" -> 2
      [] opcode = "Push3" -> 2
      [] opcode = "Push4" -> 2
      [] opcode = "Push5" -> 2
      [] opcode = "Push6" -> 2
      [] opcode = "Push7" -> 2
      [] opcode = "Push8" -> 2
      [] opcode = "Push9" -> 2
      [] opcode = "Push10" -> 2
      [] opcode = "Push11" -> 2
      [] opcode = "Push12" -> 2
      [] opcode = "Push13" -> 2
      [] opcode = "Push14" -> 2
      [] opcode = "Push15" -> 2
      [] opcode = "Push16" -> 2
      [] opcode = "Push17" -> 2
      [] opcode = "Push18" -> 2
      [] opcode = "Push19" -> 2
      [] opcode = "Push20" -> 2
      [] opcode = "Push21" -> 2
      [] opcode = "Push22" -> 2
      [] opcode = "Push23" -> 2
      [] opcode = "Push24" -> 2
      [] opcode = "Push25" -> 2
      [] opcode = "Push26" -> 2
      [] opcode = "Push27" -> 2
      [] opcode = "Push28" -> 2
      [] opcode = "Push29" -> 2
      [] opcode = "Push30" -> 2
      [] opcode = "Push31" -> 2
      [] opcode = "Push32" -> 2
      [] opcode = "Dup1" -> 3
      [] opcode = "Dup2" -> 3
      [] opcode = "Dup3" -> 3
      [] opcode = "Dup4" -> 3
      [] opcode = "Dup5" -> 3
      [] opcode = "Dup6" -> 3
      [] opcode = "Dup7" -> 3
      [] opcode = "Dup8" -> 3
      [] opcode = "Dup9" -> 3
      [] opcode = "Dup10" -> 3
      [] opcode = "Dup11" -> 3
      [] opcode = "Dup12" -> 3
      [] opcode = "Dup13" -> 3
      [] opcode = "Dup14" -> 3
      [] opcode = "Dup15" -> 3
      [] opcode = "Dup16" -> 3
      [] opcode = "Swap1" -> 3
      [] opcode = "Swap2" -> 3
      [] opcode = "Swap3" -> 3
      [] opcode = "Swap4" -> 3
      [] opcode = "Swap5" -> 3
      [] opcode = "Swap6" -> 3
      [] opcode = "Swap7" -> 3
      [] opcode = "Swap8" -> 3
      [] opcode = "Swap9" -> 3
      [] opcode = "Swap10" -> 3
      [] opcode = "Swap11" -> 3
      [] opcode = "Swap12" -> 3
      [] opcode = "Swap13" -> 3
      [] opcode = "Swap14" -> 3
      [] opcode = "Swap15" -> 3
      [] opcode = "Swap16" -> 3
      [] opcode = "Log0" -> 375
      [] opcode = "Log1" -> 750
      [] opcode = "Log2" -> 1125
      [] opcode = "Log3" -> 1500
      [] opcode = "Log4" -> 1875
      [] opcode = "Create" -> 32000
      [] opcode = "Call" -> 2600
      [] opcode = "Callcode" -> 2600
      [] opcode = "Return" -> 0
      [] opcode = "Delegatecall" -> 2600
      [] opcode = "Create2" -> 32000
      [] opcode = "Staticcall" -> 2600
      [] opcode = "Revert" -> 0
      [] opcode = "Invalid" -> 0
      [] opcode = "Selfdestruct" -> 5000

\* calculate_sstore_cost without the test of the original value for zero
calculate_sstore_cost_always_set(current_value, original_value, new_value) ==
    LET SLOAD_GAS == 800
        SSTORE_SET_GAS == 20000
    IN IF new_value = current_value THEN SLOAD_GAS
       ELSE IF original_value = current_value THEN SSTORE_SET_GAS
       ELSE SLOAD_GAS

calculate_sstore_cost(current_value, original_value, new_value) ==
    LET SLOAD_GAS == 800
        SSTORE_SET_GAS == 20000
        SSTORE_RESET_GAS == 5000
    IN IF new_value = current_value THEN SLOAD_GAS
       ELSE IF original_value = current_value
       THEN IF is_zero(original_value) THEN SSTORE_SET_GAS
            ELSE SSTORE_RESET_GAS
       ELSE SLOAD_GAS

\* The evaluation of dynamic_gas_cost: the value it returns and whether one
\* of its usize / u64 operations panics on the way.
dynamic_gas_cost_eval(opcode, params) ==
    LET round == add_u64(params.size, 31)
        words == round.val \div 32
    IN CASE opcode \in {"Calldatacopy", "Codecopy", "Returndatacopy"} ->
              [panic |-> round.panic, val |-> 3 * words]
         [] opcode = "Extcodecopy" ->
              [panic |-> round.panic, val |-> 3 * words]
         [] opcode = "Mcopy" ->
              [panic |-> round.panic, val |-> 3 * words]
         [] opcode = "Keccak256" ->
              [panic |-> round.panic, val |-> 6 * words]
         [] opcode = "Exp" ->
              IF is_zero(params.exponent) THEN [panic |-> FALSE, val |-> 0]
              ELSE LET byte_length == (bit_len(params.exponent) + 7) \div 8
                   IN [panic |-> FALSE, val |-> 50 * byte_length]
         [] opcode \in {"Log0", "Log1", "Log2", "Log3", "Log4"} ->
              mul_u64(8, params.size)
         [] opcode = "Sstore" ->
              [panic |-> FALSE,
               val |-> calculate_sstore_cost(params.current_value,
                                             params.original_value,
                                             params.new_value)]
         [] opcode \in {"Create", "Create2"} ->
              LET init_code_cost == mul_u64(2, params.size)
                  hash_cost == 6 * words
                  sum == add_u64(init_code_cost.val, hash_cost)
              IN IF opcode = "Create2"
                 THEN [panic |-> init_code_cost.panic \/ round.panic
                                  \/ sum.panic,
                       val |-> sum.val]
                 ELSE init_code_cost
         [] opcode \in {"Call", "Callcode", "Delegatecall", "Staticcall"} ->
              LET transfer == IF opcode = "Call" /\ ~is_zero(params.value)
                              THEN 9000 + (IF params.is_account_empty
                                           THEN 25000 ELSE 0)
                              ELSE 0
              IN IF params.size > 0
                 THEN [panic |-> round.panic, val |-> transfer + words]
                 ELSE [panic |-> FALSE, val |-> transfer]
         [] opcode = "Selfdestruct" ->
              [panic |-> FALSE,
               val |-> IF params.is_account_empty /\ ~is_zero(params.balance)
                       THEN 25000 ELSE 0]
         [] OTHER -> [panic |-> FALSE, val |-> 0]

dynamic_gas_cost(opcode, params) == dynamic_gas_cost_eval(opcode, params).val

dynamic_gas_cost_panics(opcode, params) ==
    dynamic_gas_cost_eval(opcode, params).panic

\* ------------------------------------------------------------------------
\* Stack (stack.rs)
\* ------------------------------------------------------------------------
STACK_MAX_SIZE == 1024

Stack_new == <<>>

len(self) == Len(self)

is_empty(self) == Len(self) = 0

is_full(self) == Len(self) = STACK_MAX_SIZE

\* push with the capacity test off by one
push_off_by_one(self, value) ==
    IF Len(self) > STACK_MAX_SIZE THEN [self |-> self, res |-> "Overflow"]
    ELSE [self |-> Append(self, value), res |-> "Ok"]

\* push replacing the top word of a full stack before it reports Overflow
push_clobbers_top(self, value) ==
    IF Len(self) >= STACK_MAX_SIZE
    THEN [self |-> [self EXCEPT ![Len(self)] = value], res |-> "Overflow"]
    ELSE [self |-> Append(self, value), res |-> "Ok"]

push(self, value) ==
    IF Len(self) >= STACK_MAX_SIZE THEN [self |-> self, res |-> "Overflow"]
    ELSE [self |-> Append(self, value), res |-> "Ok"]

\* pop taking the oldest word (Vec::remove(0)) instead of the newest
pop_front(self) ==
    IF Len(self) = 0 THEN [self |-> self, res |-> "Underflow", val |-> 0]
    ELSE [self |-> SubSeq(self, 2, Len(self)), res |-> "Ok", val |-> self[1]]

\* pop returning the top word without removing it
pop_without_remove(self) ==
    IF Len(self) = 0 THEN [self |-> self, res |-> "Underflow", val |-> 0]
    ELSE [self |-> self, res |-> "Ok", val |-> self[Len(self)]]

\* pop refusing to remove the last remaining word
pop_keeps_one(self) ==
    IF Len(self) <= 1 THEN [self |-> self, res |-> "Underflow", val |-> 0]
    ELSE [self |-> SubSeq(self, 1, Len(self) - 1), res |-> "Ok",
          val |-> self[Len(self)]]

pop(self) ==
    IF Len(self) = 0 THEN [self |-> self, res |-> "Underflow", val |-> 0]
    ELSE [self |-> SubSeq(self, 1, Len(self) - 1), res |-> "Ok",
          val |-> self[Len(self)]]

\* peek returning the oldest word (first()) instead of the newest (last())
peek_first(self) ==
    IF Len(self) = 0 THEN [some |-> FALSE, val |-> 0]
    ELSE [some |-> TRUE, val |-> self[1]]

peek(self) ==
    IF Len(self) = 0 THEN [some |-> FALSE, val |-> 0]
    ELSE [some |-> TRUE, val |-> self[Len(self)]]

\* ------------------------------------------------------------------------
\* Inputs of the calls
\* ------------------------------------------------------------------------
GasLimits == {50, 100000, U64_MAX}

Amounts == {0, 10, 40, U64_MAX - 10, U64_MAX}

RefundAmounts == {5, U64_MAX}

WriteAddrs == {0, 33, 34, 1000, MEMORY_MAX_SIZE}

ByteVals == {66, 129}

ExpandSizes == {64, 1001, MEMORY_MAX_SIZE + 1}

CeilingSizes == {MEMORY_MAX_SIZE}

ReadAddrs == {0, 1, 32, 33, 1000, 1001, MEMORY_MAX_SIZE}

WordAddrs == {0, 1, 32, 992, MEMORY_MAX_SIZE, MEMORY_MAX_SIZE + 1}

WordVals == {U256_from(66), [k \in 0..31 |-> k + 1]}

StackWords == {U256_from(1), U256_from(2)}

\* byte sizes handed to memory_expansion_cost: below, at and above a word
\* boundary, and one whose word count squared does not fit the integer
MemorySizes == {0, 1, 32, 33, 1001, 32 * 2^((U64_BITS + 1) \div 2)}

\* params.size: small sizes, one whose eightfold does not fit the integer,
\* and the largest ones
SizeArgs == {0, 1, 32, 33, 100, 2^(U64_BITS - 3), U64_MAX - 30, U64_MAX}

\* the word whose byte j is n and whose other bytes are zero
U256_byte(n, j) == [k \in 0..31 |-> IF k = j THEN n ELSE 0]

\* exponents 0, 1, 255, 256, 2^255
Exponents ==
    {U256_ZERO, U256_from(1), U256_from(255), U256_byte(1, 1),
     U256_byte(128, 31)}

StorageValues == {U256_ZERO, U256_from(24), U256_from(42), U256_from(99)}

TransferValues == {U256_ZERO, U256_from(1)}

\* the parameter records built with the with_* methods
ParamSets ==
    {with_call_params(with_size(DynamicGasParams_new, s), v, e) :
        s \in SizeArgs, v \in TransferValues, e \in BOOLEAN}
    \cup {with_exponent(with_size(DynamicGasParams_new, s), x) :
            s \in {0, 33}, x \in Exponents}
    \cup {with_storage_values(DynamicGasParams_new, c, o, n) :
            c \in StorageValues, o \in StorageValues, n \in StorageValues}
    \cup {with_balance(with_call_params(DynamicGasParams_new, U256_ZERO, e), b) :
            e \in BOOLEAN, b \in TransferValues}
    \cup {with_storage_values(with_exponent(with_call_params(
              with_size(DynamicGasParams_new, 64), U256_from(1), TRUE),
              U256_from(255)), U256_from(42), U256_from(42), U256_from(24))}

\* the opcodes dynamic_gas_cost names, and some it does not
DynamicOpcodes ==
    {"Calldatacopy", "Codecopy", "Returndatacopy", "Extcodecopy", "Mcopy",
     "Keccak256", "Exp", "Log0", "Log1", "Log2", "Log3", "Log4", "Sstore",
     "Create", "Create2", "Call", "Callcode", "Delegatecall", "Staticcall",
     "Selfdestruct", "Add", "Sload"}

\* no cost function is called
NoInput == [fn |-> "none"]

\* the arguments of one call of memory_expansion_cost, opcode_cost or
\* dynamic_gas_cost
CostInputs ==
    {[fn |-> "memory_expansion_cost", old_size |-> o, new_size |-> n] :
        o \in MemorySizes, n \in MemorySizes}
    \cup {[fn |-> "opcode_cost", opcode |-> c] : c \in Opcodes}
    \cup {[fn |-> "dynamic_gas_cost", opcode |-> c, params |-> p] :
            c \in DynamicOpcodes, p \in ParamSets}

\* ------------------------------------------------------------------------
\* Initial states
\* ------------------------------------------------------------------------
NoCall ==
    /\ op = "new"
    /\ arg = 0
    /\ res = "Ok"
    /\ ret = 0
    /\ pre_meter = meter
    /\ pre_mem = mem
    /\ pre_stack = stack
    /\ nops = 0

\* GasMeter::new(limit), Memory::new(), Stack::new()
Init ==
    /\ overflow_checks \in BOOLEAN
    /\ meter \in {GasMeter_new(limit) : limit \in GasLimits}
    /\ mem = Memory_new
    /\ stack = Stack_new
    /\ consecutive_pushes = 0
    /\ stack_calls = [push |-> 0, push_ok |-> 0, pop |-> 0, pop_ok |-> 0]
    /\ input = NoInput
    /\ NoCall

\* A meter as constructed, and the arguments of one call of a cost function.
InitCost ==
    /\ overflow_checks \in BOOLEAN
    /\ meter \in {GasMeter_new(limit) : limit \in GasLimits}
    /\ mem = Memory_new
    /\ stack = Stack_new
    /\ consecutive_pushes = 0
    /\ stack_calls = [push |-> 0, push_ok |-> 0, pop |-> 0, pop_ok |-> 0]
    /\ input \in CostInputs
    /\ NoCall

\* The stack is empty, or holds StackNearFull words after that many pushes
\* of the same word.
InitStack ==
    /\ overflow_checks \in BOOLEAN
    /\ meter = GasMeter_new(100000)
    /\ mem = Memory_new
    /\ \E n \in {0, StackNearFull} :
          /\ stack = [i \in 1..n |-> U256_from(1)]
          /\ consecutive_pushes = n
          /\ stack_calls = [push |-> n, push_ok |-> n, pop |-> 0, pop_ok |-> 0]
    /\ input = NoInput
    /\ NoCall

\* ------------------------------------------------------------------------
\* Calls
\* ------------------------------------------------------------------------
Called(name, a, r, v) ==
    /\ op' = name
    /\ arg' = a
    /\ res' = r
    /\ ret' = v
    /\ pre_meter' = meter
    /\ pre_mem' = mem
    /\ pre_stack' = stack
    /\ nops' = nops + 1
    /\ UNCHANGED <<overflow_checks, input>>

Call_consume_gas ==
    /\ nops < MaxOps
    /\ \E amount \in Amounts :
          LET r == consume_gas(meter, amount)
          IN /\ meter' = r.self
             /\ Called("consume_gas", amount, r.res, 0)
    /\ UNCHANGED <<mem, stack, consecutive_pushes, stack_calls>>

Call_refund_gas ==
    /\ nops < MaxOps
    /\ \E amount \in RefundAmounts :
          LET r == refund_gas(meter, amount)
          IN /\ meter' = r.self
             /\ Called("refund_gas", amount, r.res, 0)
    /\ UNCHANGED <<mem, stack, consecutive_pushes, stack_calls>>

Call_update_memory_cost ==
    /\ nops < MaxOps
    /\ LET r == update_memory_cost(meter, mem)
       IN /\ meter' = r.self
          /\ Called("update_memory_cost", size(mem), r.res, 0)
    /\ UNCHANGED <<mem, stack, consecutive_pushes, stack_calls>>

Call_reset ==
    /\ nops < MaxOps
    /\ \E limit \in GasLimits :
          /\ meter' = reset(meter, limit)
          /\ Called("reset", limit, "Ok", 0)
    /\ UNCHANGED <<mem, stack, consecutive_pushes, stack_calls>>

Call_write_byte ==
    /\ nops < MaxOps
    /\ \E address \in WriteAddrs, value \in ByteVals :
          LET r == write_byte(mem, address, value)
          IN /\ mem' = r.self
             /\ Called("write_byte", <<address, value>>, r.res, 0)
    /\ UNCHANGED <<meter, stack, consecutive_pushes, stack_calls>>

Call_read_byte ==
    /\ nops < MaxOps
    /\ \E address \in ReadAddrs :
          LET r == read_byte(mem, address)
          IN Called("read_byte", address, r.res, r.val)
    /\ UNCHANGED <<meter, mem, stack, consecutive_pushes, stack_calls>>

Call_read_word ==
    /\ nops < MaxOps
    /\ \E address \in WordAddrs :
          LET r == read_word(mem, address)
          IN Called("read_word", address, r.res, r.val)
    /\ UNCHANGED <<meter, mem, stack, consecutive_pushes, stack_calls>>

Call_write_word ==
    /\ nops < MaxOps
    /\ \E address \in WordAddrs, value \in WordVals :
          LET r == write_word(mem, address, value)
          IN /\ mem' = r.self
             /\ Called("write_word", <<address, value>>, r.res, 0)
    /\ UNCHANGED <<meter, stack, consecutive_pushes, stack_calls>>

Call_expand ==
    /\ nops < MaxOps
    /\ \E new_size \in ExpandSizes :
          LET r == expand(mem, new_size)
          IN /\ mem' = r.self
             /\ Called("expand", new_size, r.res, 0)
    /\ UNCHANGED <<meter, stack, consecutive_pushes, stack_calls>>

\* expand up to the ceiling itself
Call_expand_to_ceiling ==
    /\ nops < MaxOps
    /\ \E new_size \in CeilingSizes :
          LET r == expand(mem, new_size)
          IN /\ mem' = r.self
             /\ Called("expand", new_size, r.res, 0)
    /\ UNCHANGED <<meter, stack, consecutive_pushes, stack_calls>>

\* A new execution frame starts with a new memory (Memory::new()).
Call_Memory_new ==
    /\ nops < MaxOps
    /\ mem' = Memory_new
    /\ Called("Memory::new", 0, "Ok", 0)
    /\ UNCHANGED <<meter, stack, consecutive_pushes, stack_calls>>

Call_push ==
    /\ nops < MaxOps
    /\ \E value \in StackWords :
          LET r == push(stack, value)
          IN /\ stack' = r.self
             /\ Called("push", value, r.res, 0)
             /\ stack_calls' =
                   [stack_calls EXCEPT
                       !.push = @ + 1,
                       !.push_ok = IF r.res = "Ok" THEN @ + 1 ELSE @]
    /\ consecutive_pushes' = consecutive_pushes + 1
    /\ UNCHANGED <<meter, mem>>

Call_pop ==
    /\ nops < MaxOps
    /\ LET r == pop(stack)
       IN /\ stack' = r.self
          /\ Called("pop", 0, r.res, r.val)
          /\ stack_calls' =
                [stack_calls EXCEPT
                    !.pop = @ + 1,
                    !.pop_ok = IF r.res = "Ok" THEN @ + 1 ELSE @]
    /\ consecutive_pushes' = 0
    /\ UNCHANGED <<meter, mem>>

Call_peek ==
    /\ nops < MaxOps
    /\ LET r == peek(stack)
       IN Called("peek", 0, IF r.some THEN "Some" ELSE "None", r.val)
    /\ UNCHANGED <<meter, mem, stack, consecutive_pushes, stack_calls>>

Call_is_empty ==
    /\ nops < MaxOps
    /\ Called("is_empty", 0, "Ok", is_empty(stack))
    /\ UNCHANGED <<meter, mem, stack, consecutive_pushes, stack_calls>>

Call_is_full ==
    /\ nops < MaxOps
    /\ Called("is_full", 0, "Ok", is_full(stack))
    /\ UNCHANGED <<meter, mem, stack, consecutive_pushes, stack_calls>>

Call_len ==
    /\ nops < MaxOps
    /\ Called("len", 0, "Ok", len(stack))
    /\ UNCHANGED <<meter, mem, stack, consecutive_pushes, stack_calls>>

\* The cost functions borrow the meter immutably (&self).
Call_memory_expansion_cost ==
    /\ nops < MaxOps
    /\ input.fn = "memory_expansion_cost"
    /\ LET old_size == input.old_size
           new_size == input.new_size
       IN IF memory_expansion_cost_panics(old_size, new_size)
          THEN Called("memory_expansion_cost", <<old_size, new_size>>,
                      "Panic", 0)
          ELSE Called("memory_expansion_cost", <<old_size, new_size>>, "Ok",
                      memory_expansion_cost(old_size, new_size))
    /\ UNCHANGED <<meter, mem, stack, consecutive_pushes, stack_calls>>

Call_opcode_cost ==
    /\ nops < MaxOps
    /\ input.fn = "opcode_cost"
    /\ Called("opcode_cost", input.opcode, "Ok", opcode_cost(input.opcode))
    /\ UNCHANGED <<meter, mem, stack, consecutive_pushes, stack_calls>>

Call_dynamic_gas_cost ==
    /\ nops < MaxOps
    /\ input.fn = "dynamic_gas_cost"
    /\ LET opcode == input.opcode
           params == input.params
       IN IF dynamic_gas_cost_panics(opcode, params)
          THEN Called("dynamic_gas_cost", <<opcode, params>>, "Panic", 0)
          ELSE Called("dynamic_gas_cost", <<opcode, params>>, "Ok",
                      dynamic_gas_cost(opcode, params))
    /\ UNCHANGED <<meter, mem, stack, consecutive_pushes, stack_calls>>

\* ------------------------------------------------------------------------
\* Specifications
\* ------------------------------------------------------------------------
\* The gas meter and the memory it bills, under every call of the meter.
Next ==
    \/ Call_consume_gas
    \/ Call_refund_gas
    \/ Call_update_memory_cost
    \/ Call_reset
    \/ Call_write_byte
    \/ Call_expand
    \/ Call_Memory_new

Spec == Init /\ [][Next]_vars

\* One memory that only grows, billed by update_memory_cost and nothing else.
NextMemGas ==
    \/ Call_write_byte
    \/ Call_expand
    \/ Call_update_memory_cost

SpecMemGas == Init /\ [][NextMemGas]_vars

\* One memory under its reads, writes and expansions.
NextMem ==
    \/ Call_read_byte
    \/ Call_write_byte
    \/ Call_read_word
    \/ Call_write_word
    \/ Call_expand
    \/ Call_expand_to_ceiling

SpecMem == Init /\ [][NextMem]_vars

\* The stack under push, pop and its observers.
NextStack ==
    \/ Call_push
    \/ Call_pop
    \/ Call_peek
    \/ Call_is_empty
    \/ Call_is_full
    \/ Call_len

SpecStack == InitStack /\ [][NextStack]_vars

\* The cost functions of the meter, called in any state of the meter.
NextCost ==
    \/ Call_memory_expansion_cost
    \/ Call_opcode_cost
    \/ Call_dynamic_gas_cost
    \/ Call_refund_gas

SpecCost == InitCost /\ [][NextCost]_vars

\* ------------------------------------------------------------------------
\* Properties
\* ------------------------------------------------------------------------

\* C1: in every state reachable by consume_gas, refund_gas,
\* update_memory_cost and reset calls, gas_used <= gas_limit.
C1_GasUsedWithinLimit == meter.gas_used <= meter.gas_limit

\* a charge has brought a non-empty meter exactly to its limit
C1_Witness ==
    /\ op = "consume_gas"
    /\ res = "Ok"
    /\ pre_meter.gas_used > 0
    /\ meter.gas_used = meter.gas_limit

\* C2: consume_gas(amount) returns GasLimitExceeded exactly when
\* gas_used + amount, as unbounded integers, exceeds gas_limit; otherwise it
\* returns Ok and gas_used grows by exactly amount.
C2_ConsumeDecidedByUnboundedSum ==
    op = "consume_gas" =>
        IF pre_meter.gas_used + arg > pre_meter.gas_limit
        THEN res = "GasLimitExceeded"
        ELSE res = "Ok" /\ meter.gas_used = pre_meter.gas_used + arg

\* C3: a consume_gas call that returns GasLimitExceeded leaves gas_used,
\* gas_limit, gas_refund and previous_memory_size as they were.
C3_RejectedConsumeChangesNothing ==
    (op = "consume_gas" /\ res = "GasLimitExceeded") =>
        /\ meter.gas_used = pre_meter.gas_used
        /\ meter.gas_limit = pre_meter.gas_limit
        /\ meter.gas_refund = pre_meter.gas_refund
        /\ meter.previous_memory_size = pre_meter.previous_memory_size

\* a charge was rejected on a meter that had gas used, a refund and a billed
\* memory size
C3_Witness ==
    /\ op = "consume_gas"
    /\ res = "GasLimitExceeded"
    /\ arg > 0
    /\ pre_meter.gas_used > 0
    /\ pre_meter.previous_memory_size > 0

\* C4: a successful update_memory_cost(memory) increases gas_used by exactly
\* memory_expansion_cost(previous_memory_size, memory.size()) and leaves
\* previous_memory_size equal to memory.size().
C4_UpdateChargesExpansionCost ==
    (op = "update_memory_cost" /\ res = "Ok") =>
        /\ meter.gas_used = pre_meter.gas_used
               + memory_expansion_cost(pre_meter.previous_memory_size, size(mem))
        /\ meter.previous_memory_size = size(mem)

\* C5: when the expansion cost exceeds the remaining gas, update_memory_cost
\* returns GasLimitExceeded and gas_used, gas_refund and
\* previous_memory_size are unchanged.
C5_UnaffordableUpdateRejected ==
    (/\ op = "update_memory_cost"
     /\ memory_expansion_cost(pre_meter.previous_memory_size, size(pre_mem))
            > remaining_gas(pre_meter)) =>
        /\ res = "GasLimitExceeded"
        /\ meter.gas_used = pre_meter.gas_used
        /\ meter.gas_refund = pre_meter.gas_refund
        /\ meter.previous_memory_size = pre_meter.previous_memory_size

\* C6: on a fresh meter billing one growing memory and nothing else, after a
\* successful update_memory_cost gas_used = memory_expansion_cost(0, size)
\* = Memory::gas_cost(), however many updates were made before; a memory of
\* 1001 bytes gives previous_memory_size 1001 and gas_used 98.
C6_UpdatesSumToCumulativeCost ==
    (op = "update_memory_cost" /\ res = "Ok") =>
        /\ meter.gas_used = memory_expansion_cost(0, size(mem))
        /\ meter.gas_used = gas_cost(mem)
        /\ meter.previous_memory_size = size(mem)
        /\ size(mem) = 1001 => meter.gas_used = 98

\* the second billed update of a memory that grew to 1001 bytes in between
C6_Witness ==
    /\ op = "update_memory_cost"
    /\ res = "Ok"
    /\ pre_meter.gas_used > 0
    /\ pre_meter.previous_memory_size < 1001
    /\ meter.previous_memory_size = 1001

\* C7: in every state reachable by push and pop, len() <= 1024, and
\* is_full() holds exactly when len() = 1024.
C7_StackBounded ==
    /\ len(stack) <= 1024
    /\ is_full(stack) <=> (len(stack) = 1024)

\* a push was refused on a stack of 1024 words
C7_Witness ==
    /\ op = "push"
    /\ res = "Overflow"
    /\ len(stack) = 1024
    /\ is_full(stack)

\* C8: push on a stack of 1024 words returns Overflow and leaves the stack
\* unchanged; push on a smaller stack succeeds and increases len() by one;
\* the 1025th consecutive push without a pop in between fails.
C8_PushOverflowAtCapacity ==
    op = "push" =>
        /\ len(pre_stack) = 1024 => (res = "Overflow" /\ stack = pre_stack)
        /\ len(pre_stack) < 1024 =>
              (res = "Ok" /\ len(stack) = len(pre_stack) + 1)
        /\ consecutive_pushes >= 1025 => res = "Overflow"

\* the 1025th consecutive push, with a word that differs from the top
C8_Witness ==
    /\ op = "push"
    /\ consecutive_pushes = 1025
    /\ res = "Overflow"
    /\ arg # pre_stack[len(pre_stack)]

\* C9: a successful pop returns the word of the most recent push not yet
\* popped, removes only that word and leaves the words below it as they
\* were, in order; a successful push puts its word on top of them.
C9_Lifo ==
    /\ (op = "pop" /\ res = "Ok") =>
          /\ ret = pre_stack[len(pre_stack)]
          /\ len(stack) = len(pre_stack) - 1
          /\ \A i \in 1..len(stack) : stack[i] = pre_stack[i]
    /\ (op = "push" /\ res = "Ok") =>
          /\ stack[len(stack)] = arg
          /\ len(stack) = len(pre_stack) + 1
          /\ \A i \in 1..len(pre_stack) : stack[i] = pre_stack[i]

\* a pop returned a word that differs from the words left below it
C9_Witness ==
    /\ op = "pop"
    /\ res = "Ok"
    /\ len(stack) > 1
    /\ ret # stack[len(stack)]
    /\ ret # stack[1]

\* C10: pop on an empty stack returns Underflow and the stack stays empty;
\* pop fails only when the stack is empty.
C10_PopUnderflowOnlyWhenEmpty ==
    op = "pop" =>
        /\ len(pre_stack) = 0 => (res = "Underflow" /\ len(stack) = 0)
        /\ res # "Ok" => (res = "Underflow" /\ len(pre_stack) = 0)

\* a pop was refused on a stack that earlier calls had emptied
C10_Witness ==
    /\ op = "pop"
    /\ res = "Underflow"
    /\ len(stack) = 0
    /\ nops >= 3

\* #pushes - #pops clamped below at 0 and above at the capacity
ClampedCallBalance ==
    LET d == stack_calls.push - stack_calls.pop
    IN IF d < 0 THEN 0 ELSE IF d > 1024 THEN 1024 ELSE d

\* C11 (as stated): after any sequence of push and pop calls, len() equals
\* the number of push calls minus the number of pop calls, clamped below at
\* 0 and above at 1024.
C11_LenIsClampedCallBalance == len(stack) = ClampedCallBalance

\* C11 (amended): len() equals the number of push calls that returned Ok
\* minus the number of pop calls that returned Ok.
C11_LenIsBalanceOfSuccessfulCalls ==
    len(stack) = stack_calls.push_ok - stack_calls.pop_ok

\* a push succeeded after a pop had failed, and one after a push had failed
C11_Witness ==
    /\ op = "push"
    /\ res = "Ok"
    /\ \/ stack_calls.pop > stack_calls.pop_ok
       \/ stack_calls.push > stack_calls.push_ok

\* C12: peek() returns what the next pop would return and None on an empty
\* stack; peek, is_empty, is_full and len leave the stack as it was.
C12_PeekAndObservers ==
    /\ op = "peek" =>
          /\ len(pre_stack) = 0 => res = "None"
          /\ len(pre_stack) > 0 =>
                /\ res = "Some"
                /\ pop(stack).res = "Ok"
                /\ ret = pop(stack).val
    /\ op = "is_empty" => (ret <=> (len(stack) = 0))
    /\ op = "is_full" => (ret <=> (len(stack) = 1024))
    /\ op = "len" => ret = Len(stack)
    /\ op \in {"peek", "is_empty", "is_full", "len"} => stack = pre_stack

\* peek found the word just pushed on top of different words
C12_Witness ==
    /\ op = "peek"
    /\ res = "Some"
    /\ len(stack) > 1
    /\ ret # stack[1]

\* C13: across read_byte, read_word, write_byte, write_word and expand
\* calls, successful or failing, size() never decreases.
C13_SizeNeverDecreases == size(mem) >= size(pre_mem)

\* a byte was written below the end of a memory, whose size stayed
C13_Witness ==
    /\ op = "write_byte"
    /\ res = "Ok"
    /\ arg[1] + 1 < size(pre_mem)
    /\ size(mem) = size(pre_mem)

\* C14: for every byte address k < 33,554,432 and every byte v,
\* write_byte(k, v) succeeds and read_byte(k) then returns v.
C14_WriteByteThenRead ==
    (op = "write_byte" /\ arg[1] < 33554432) =>
        /\ res = "Ok"
        /\ read_byte(mem, arg[1]) = [res |-> "Ok", val |-> arg[2]]

\* C15: for every 32-byte-aligned address a < 33,554,432 and every word v,
\* write_word(a, v) succeeds and read_word(a) then returns v.
C15_WriteWordThenRead ==
    (op = "write_word" /\ arg[1] % 32 = 0 /\ arg[1] < 33554432) =>
        /\ res = "Ok"
        /\ read_word(mem, arg[1]) = [res |-> "Ok", val |-> arg[2]]

\* C16: for every address a with a % 32 # 0, in every memory state,
\* read_word(a) and write_word(a, v) fail with InvalidAddress and change
\* nothing.
C16_UnalignedWordAccessInvalid ==
    /\ (op = "read_word" /\ arg % 32 # 0) =>
          (res = "InvalidAddress" /\ mem = pre_mem)
    /\ (op = "write_word" /\ arg[1] % 32 # 0) =>
          (res = "InvalidAddress" /\ mem = pre_mem)

\* The byte addresses looked at in a memory property: every address of a
\* word that holds a byte other than 0 before or after the call (all other
\* words are zero throughout), the addresses read by the calls, and the
\* addresses at both ends of the memory before and after the call.
ProbeAddrs ==
    LET words == DOMAIN mem.memory.nz \cup DOMAIN pre_mem.memory.nz
        ends == {size(pre_mem), size(mem)}
    IN {32 * i + k : i \in words, k \in 0..31}
       \cup ReadAddrs
       \cup {e + d : e \in ends, d \in {0, 1}}
       \cup {e - 1 : e \in ends \ {0}}

\* C17: read_byte(a) fails with OutOfBounds exactly when a >= size() and
\* succeeds for every a < size() (the word vector covers ceil(size/32)
\* words); reads change neither size nor contents.
C17_ReadByteBoundIsSize ==
    /\ \A a \in ProbeAddrs :
          read_byte(mem, a).res = IF a >= size(mem) THEN "OutOfBounds" ELSE "Ok"
    /\ mem.memory.len >= (size(mem) + 31) \div 32
    /\ op = "read_byte" =>
          /\ res = "OutOfBounds" <=> arg >= size(pre_mem)
          /\ res = "Ok" <=> arg < size(pre_mem)
    /\ op \in {"read_byte", "read_word"} => mem = pre_mem

\* the last byte of a memory that expand grew to a size that is not a
\* multiple of 32 was read
C17_Witness ==
    /\ op = "read_byte"
    /\ res = "Ok"
    /\ arg = size(mem) - 1
    /\ size(mem) % 32 # 0
    /\ mem.memory.nz = <<>>

\* C18: expand(new_size) succeeds for every new_size up to and including
\* 33,554,432 and fails, with ExpansionLimit and without a change, only
\* when new_size exceeds it.
C18_ExpandCeiling ==
    op = "expand" =>
        /\ arg <= 33554432 => res = "Ok"
        /\ res # "Ok" =>
              (res = "ExpansionLimit" /\ arg > 33554432 /\ mem = pre_mem)

\* C19: a successful expand(new_size) leaves size() = max(old size,
\* new_size), keeps every byte below the old size, and every byte in
\* [old size, new size) reads 0.
C19_ExpandZeroFills ==
    (op = "expand" /\ res = "Ok") =>
        /\ size(mem) = IF arg > size(pre_mem) THEN arg ELSE size(pre_mem)
        /\ \A b \in ProbeAddrs :
              /\ b < size(pre_mem) => read_byte(mem, b) = read_byte(pre_mem, b)
              /\ (size(pre_mem) <= b /\ b < arg) =>
                    read_byte(mem, b) = [res |-> "Ok", val |-> 0]

\* a memory holding a written byte was expanded, and expanded to less than
\* its size
C19_Witness ==
    /\ op = "expand"
    /\ res = "Ok"
    /\ pre_mem.memory.nz # <<>>
    /\ \/ arg > size(pre_mem) + 32
       \/ arg < size(pre_mem)

\* C20: bytes are big-endian inside a word: after write_word(a, v),
\* read_byte(a + i) returns the i-th most significant byte of v for i in
\* 0..31; and write_byte(a, b) at an aligned address of zeroed memory makes
\* read_word(a) return b * 256^31.
C20_BigEndianWords ==
    /\ (op = "write_word" /\ res = "Ok") =>
          \A i \in 0..31 :
              read_byte(mem, arg[1] + i) = [res |-> "Ok", val |-> arg[2][31 - i]]
    /\ (/\ op = "write_byte"
        /\ res = "Ok"
        /\ arg[1] % 32 = 0
        /\ pre_mem.memory.nz = <<>>
        /\ read_word(mem, arg[1]).res = "Ok") =>
          read_word(mem, arg[1]).val = [k \in 0..31 |-> IF k = 31 THEN arg[2] ELSE 0]

\* ceil(n / 32) and the quadratic memory cost C(a) = 3a + floor(a^2 / 512),
\* written without the rounding addition of the code
CeilWords(n) == n \div 32 + (IF n % 32 = 0 THEN 0 ELSE 1)

QuadraticCost(a) == 3 * a + (a * a) \div 512

\* C21: for all byte sizes old and new, memory_expansion_cost(old, new)
\* returns 0 when new <= old and C(ceil(new/32)) - C(ceil(old/32)) otherwise;
\* the result is not negative and the meter is left as it was.
C21_ExpansionCostIsCostDifference ==
    op = "memory_expansion_cost" =>
        /\ res = "Ok"
        /\ ret = IF arg[2] <= arg[1] THEN 0
                 ELSE QuadraticCost(CeilWords(arg[2]))
                      - QuadraticCost(CeilWords(arg[1]))
        /\ ret >= 0
        /\ meter = pre_meter

\* C22: Memory::gas_cost() is 0 for a fresh memory, is never lower after a
\* memory operation than before it, and always equals 3a + floor(a^2 / 512)
\* with a = ceil(size / 32).
C22_GasCostQuadraticAndMonotonic ==
    /\ mem = Memory_new => gas_cost(mem) = 0
    /\ gas_cost(mem) >= gas_cost(pre_mem)
    /\ gas_cost(mem) = QuadraticCost(CeilWords(size(mem)))

\* a byte write ended a memory inside a word and raised its cost, which was
\* not zero before
C22_Witness ==
    /\ op = "write_byte"
    /\ res = "Ok"
    /\ size(mem) % 32 # 0
    /\ gas_cost(pre_mem) > 0
    /\ gas_cost(mem) > gas_cost(pre_mem)

\* C23: refund_gas(amount) always returns Ok, sets gas_refund to
\* min(gas_refund + amount, 2^64 - 1) and leaves gas_used, gas_limit and
\* previous_memory_size as they were; gas_refund does not decrease except by
\* reset; effective_gas_used() is max(0, gas_used - gas_refund).
C23_RefundSaturates ==
    /\ op = "refund_gas" =>
          /\ res = "Ok"
          /\ meter.gas_refund =
                IF pre_meter.gas_refund + arg > U64_MAX THEN U64_MAX
                ELSE pre_meter.gas_refund + arg
          /\ meter.gas_used = pre_meter.gas_used
          /\ meter.gas_limit = pre_meter.gas_limit
          /\ meter.previous_memory_size = pre_meter.previous_memory_size
    /\ op # "reset" => meter.gas_refund >= pre_meter.gas_refund
    /\ effective_gas_used(meter) =
          IF meter.gas_used > meter.gas_refund
          THEN meter.gas_used - meter.gas_refund ELSE 0

\* a refund on top of an earlier one reached the largest u64, with gas used
C23_Witness ==
    /\ op = "refund_gas"
    /\ pre_meter.gas_refund > 0
    /\ pre_meter.gas_refund + arg > U64_MAX
    /\ meter.gas_refund = U64_MAX
    /\ meter.gas_used > 0

\* C24: after reset(L) the meter is exactly the meter GasMeter::new(L)
\* constructs: gas_used 0, gas_refund 0, previous_memory_size 0, memory cost
\* 0 and gas_limit L.
C24_ResetIsNew == op = "reset" => meter = GasMeter_new(arg)

\* a meter that had charged gas and memory and held a refund was reset to
\* another limit
C24_Witness ==
    /\ op = "reset"
    /\ pre_meter.gas_used > 0
    /\ pre_meter.gas_refund > 0
    /\ pre_meter.previous_memory_size > 0
    /\ pre_meter.memory_gas_cost > 0
    /\ arg # pre_meter.gas_limit

\* C25: the dynamic cost of Sstore is 800 when new = current; 20000 when
\* new # current, original = current and original = 0; 5000 when
\* new # current, original = current and original # 0; 800 when
\* new # current and original # current.
C25_SstoreCost ==
    (op = "dynamic_gas_cost" /\ arg[1] = "Sstore") =>
        LET current == arg[2].current_value
            original == arg[2].original_value
            new == arg[2].new_value
        IN /\ res = "Ok"
           /\ new = current => ret = 800
           /\ (new # current /\ original = current /\ original = U256_ZERO)
                 => ret = 20000
           /\ (new # current /\ original = current /\ original # U256_ZERO)
                 => ret = 5000
           /\ (new # current /\ original # current) => ret = 800

\* the first change of a slot holding 42 was priced
C25_Witness ==
    /\ op = "dynamic_gas_cost"
    /\ arg[1] = "Sstore"
    /\ arg[2].current_value = U256_from(42)
    /\ arg[2].original_value = U256_from(42)
    /\ arg[2].new_value = U256_from(24)
    /\ ret = 5000

\* the value-transfer part of the cost of the call family: 9000 only for
\* Call with a value that is not zero, and 25000 more only when the account
\* is empty as well
TransferCost(opcode, params) ==
    IF opcode = "Call" /\ params.value # U256_ZERO
    THEN IF params.is_account_empty THEN 9000 + 25000 ELSE 9000
    ELSE 0

\* C26: for Call, Callcode, Delegatecall and Staticcall the dynamic cost is
\* the value-transfer part (9000 only for Call with nonzero value, 25000
\* more only when the account is also empty) plus ceil(size / 32) when
\* size > 0; Callcode, Delegatecall and Staticcall cost exactly
\* ceil(size / 32).
C26_CallFamilyCost ==
    (op = "dynamic_gas_cost"
     /\ arg[1] \in {"Call", "Callcode", "Delegatecall", "Staticcall"}) =>
        /\ res = "Ok"
        /\ ret = TransferCost(arg[1], arg[2])
                 + (IF arg[2].size > 0 THEN CeilWords(arg[2].size) ELSE 0)
        /\ arg[1] # "Call" => ret = CeilWords(arg[2].size)

\* C27: the dynamic cost is 3 * ceil(size / 32) for Calldatacopy, Codecopy,
\* Returndatacopy, Extcodecopy and Mcopy, 6 * ceil(size / 32) for Keccak256,
\* 0 for Exp with exponent 0 and 50 * ceil(bit_length / 8) otherwise, and
\* 8 * size for Log0..Log4 whatever the number of topics; the other
\* parameters do not matter.
C27_SizeProportionalCosts ==
    op = "dynamic_gas_cost" =>
        /\ arg[1] \in {"Calldatacopy", "Codecopy", "Returndatacopy",
                        "Extcodecopy", "Mcopy"} =>
              res = "Ok" /\ ret = 3 * CeilWords(arg[2].size)
        /\ arg[1] = "Keccak256" =>
              res = "Ok" /\ ret = 6 * CeilWords(arg[2].size)
        /\ arg[1] = "Exp" =>
              /\ res = "Ok"
              /\ ret = IF arg[2].exponent = U256_ZERO THEN 0
                       ELSE LET bits == bit_len(arg[2].exponent)
                            IN 50 * (bits \div 8
                                     + (IF bits % 8 = 0 THEN 0 ELSE 1))
              /\ arg[2].exponent = U256_from(255) => ret = 50
              /\ arg[2].exponent = U256_byte(1, 1) => ret = 100
        /\ arg[1] \in {"Log0", "Log1", "Log2", "Log3", "Log4"} =>
              res = "Ok" /\ ret = 8 * arg[2].size

\* the opcodes of the arithmetic, comparison and bitwise sections of
\* opcode_cost, and the number of topics of each log opcode
ArithmeticOpcodes ==
    {"Add", "Mul", "Sub", "Div", "Sdiv", "Mod", "Smod", "Addmod", "Mulmod",
     "Exp", "Signextend"}

ComparisonOpcodes == {"Lt", "Gt", "Slt", "Sgt", "Eq", "Iszero"}

BitwiseOpcodes == {"And", "Or", "Xor", "Not", "Byte", "Shl", "Shr", "Sar"}

LogTopics ==
    "Log0" :> 0 @@ "Log1" :> 1 @@ "Log2" :> 2 @@ "Log3" :> 3 @@ "Log4" :> 4

\* what the claim C28 says of every opcode but the arithmetic ones, and of
\* the meter
FixedTableAndFrame ==
    /\ op = "opcode_cost" =>
          /\ res = "Ok"
          /\ ret = opcode_cost(arg)
          /\ arg \in ComparisonOpcodes \cup BitwiseOpcodes => ret = 3
          /\ arg \in DOMAIN LogTopics => ret = 375 * (LogTopics[arg] + 1)
    /\ op \in {"opcode_cost", "dynamic_gas_cost"} =>
          /\ meter.gas_used = pre_meter.gas_used
          /\ meter.gas_refund = pre_meter.gas_refund
          /\ meter.previous_memory_size = pre_meter.previous_memory_size

\* C28 as stated: opcode_cost is a fixed table independent of the meter;
\* every arithmetic opcode, Exp included, costs between 3 and 8, every
\* comparison and bitwise opcode costs 3, LogN costs 375 * (N + 1);
\* opcode_cost and dynamic_gas_cost leave gas_used, gas_refund and
\* previous_memory_size as they were.
C28_ArithmeticBetween3And8 ==
    /\ FixedTableAndFrame
    /\ (op = "opcode_cost" /\ arg \in ArithmeticOpcodes) =>
          (3 <= ret /\ ret <= 8)

\* C28 amended: as above, but the arithmetic opcodes other than Exp cost
\* between 3 and 8 and Exp costs 10.
C28_ArithmeticBetween3And8ExceptExp ==
    /\ FixedTableAndFrame
    /\ (op = "opcode_cost" /\ arg \in ArithmeticOpcodes \ {"Exp"}) =>
          (3 <= ret /\ ret <= 8)
    /\ (op = "opcode_cost" /\ arg = "Exp") => ret = 10

\* Exp was priced by a meter that holds a refund
C28_Witness ==
    /\ op = "opcode_cost"
    /\ arg = "Exp"
    /\ ret = 10
    /\ meter.gas_refund > 0

\* C29: a successful write_byte(a, v) sets size() to max(old size, a + 1)
\* and changes what is read at a only: every other address b below the new
\* size reads what it read before the write, or 0 if it lay at or beyond
\* the old size; the neighbouring bytes of the word of a are kept.
C29_WriteByteFrame ==
    (op = "write_byte" /\ res = "Ok") =>
        /\ size(mem) = IF arg[1] + 1 > size(pre_mem) THEN arg[1] + 1
                       ELSE size(pre_mem)
        /\ read_byte(mem, arg[1]) = [res |-> "Ok", val |-> arg[2]]
        /\ \A b \in ProbeAddrs :
              (b # arg[1] /\ b < size(mem)) =>
                  read_byte(mem, b) =
                     [res |-> "Ok",
                      val |-> IF b < size(pre_mem)
                              THEN read_byte(pre_mem, b).val ELSE 0]

\* a byte was written next to a byte of the same word that holds another
\* value, which is still read
C29_Witness ==
    /\ op = "write_byte"
    /\ res = "Ok"
    /\ arg[1] % 32 # 0
    /\ read_byte(pre_mem, arg[1] - 1).res = "Ok"
    /\ read_byte(pre_mem, arg[1] - 1).val \notin {0, arg[2]}
    /\ read_byte(mem, arg[1] - 1).val = read_byte(pre_mem, arg[1] - 1).val
    /\ size(mem) > size(pre_mem)

====
